---- MODULE Spec2Model ----
(***************************************************************************)
(* minigrad (src/src/lib.rs): a reverse-mode automatic differentiation     *)
(* engine over a dynamically built scalar computation graph, and the       *)
(* Neuron / Layer / MLP built on it.                                       *)
(*                                                                         *)
(* Representation.  Every Value_ ever allocated lives in the sequence      *)
(* `nodes`, in allocation order; a Value (an Rc<Value_>) is the index of   *)
(* its Value_ in `nodes`.  The field `id` is kept apart from the index: it *)
(* is what get_id() returned, and it is what topological_order keys its    *)
(* visited set by.  A heap h is the pair [nodes, counter] that the         *)
(* constructors thread through.                                            *)
(*                                                                         *)
(* Numbers.  An f32 is modelled on the fixed-point grid of step 1/Scale:   *)
(* the integer n stands for n/Scale.  Sums and differences of grid values  *)
(* are exact, products and tanh are rounded to the nearest grid point.     *)
(* Whole numbers (multiples of Scale) therefore add, subtract and multiply *)
(* exactly, as small whole numbers do in f32.  NaN and infinity are not    *)
(* modelled; magnitudes are capped by MaxAbs.                              *)
(***************************************************************************)
EXTENDS Integers, Sequences, FiniteSets, TLC

\* ---------------------------------------------------------------- bounds
\* Grid points per unit: the resolution of the modelled f32.
Scale == 100
\* Largest number of Value_ allocated in one behaviour of Spec.
MaxNodes == 4
\* Largest number of calculate_grad calls in one behaviour of Spec.
MaxCalls == 2
\* Largest magnitude (in units) of a value built in Spec.
MaxAbs == 8
\* SpecNeuron: the largest nin of Neuron::new and the longest input slice.
MaxLen == 3
\* SpecNeuron: the largest number of input Values built.
MaxInputs == 2
\* SpecTrain: nin and the width of the hidden layer of MLP::new(nin,
\* &[hidden, 1]) (the test mlp uses 2 and 3), and the iterations of the
\* training loop (n_iter, 100 in the test).
NIn == 1
NHidden == 2
MaxIter == 2

\* The whole numbers leaves are built from: the test it_works uses -2.0 and 1.0.
LeafValues == {-2 * Scale, 1 * Scale}

\* ------------------------------------------------------------ arithmetic
Abs(x) == IF x < 0 THEN -x ELSE x

\* n / d rounded to the nearest integer, ties to even (d > 0).
RoundDiv(n, d) ==
    LET q == n \div d
        r == n % d
    IN  IF 2 * r < d THEN q
        ELSE IF 2 * r > d THEN q + 1
        ELSE IF q % 2 = 0 THEN q ELSE q + 1

\* f32 addition, subtraction, negation and multiplication on the grid.
FAdd(x, y) == x + y
FSub(x, y) == x - y
FNeg(x) == 0 - x
FMul(x, y) == RoundDiv(x * y, Scale)
\* The literal 1.0.
One == Scale

\* tanh on the grid: the continued-fraction approximant
\* x (27 + x^2) / (27 + 9 x^2) for |x| < 3 and +-1 beyond (the approximant
\* reaches 1 at x = 3), rounded to the grid.
TanhGrid(d) ==
    IF d >= 3 * Scale THEN One
    ELSE IF d <= -3 * Scale THEN FNeg(One)
    ELSE RoundDiv(d * (27 * Scale * Scale + d * d),
                  27 * Scale * Scale + 9 * d * d)

\* Value::tanh computes ((2d).exp() - 1) / ((2d).exp() + 1).
TanhForward(d) == TanhGrid(d)
\* calculate_grad computes d.tanh() with the standard library.
TanhStd(d) == TanhGrid(d)

\* ----------------------------------------------------------------- state
VARIABLES
    COUNTER,       \* get_id's static AtomicUsize
    nodes,         \* every Value_ allocated so far, in allocation order
    pc,            \* "idle", or "grad" inside calculate_grad's loop
    root,          \* calculate_grad's argument (0: no call is on record)
    rev_tp_order,  \* calculate_grad's local rev_tp_order
    pos,           \* position of the loop `for v in &rev_tp_order`
    pre,           \* `nodes` as it was when calculate_grad was last called
    calls,         \* number of calculate_grad calls so far
    net,           \* the Neuron (SpecNeuron) or the MLP nn (SpecTrain)
    loc,           \* the locals of the code that uses net
    tpc            \* the position of the code that uses net

vars == <<COUNTER, nodes, pc, root, rev_tp_order, pos, pre, calls, net, loc, tpc>>

BinaryOps == {"Plus", "Mul", "Sub"}

\* The operands of a node, in argument order.
Operands(ns, v) ==
    IF ns[v].op \in BinaryOps THEN <<ns[v].v1, ns[v].v2>>
    ELSE IF ns[v].op = "Tanh" THEN <<ns[v].v1>>
    ELSE <<>>

OperandSet(ns, v) == {Operands(ns, v)[k] : k \in 1..Len(Operands(ns, v))}

\* ------------------------------------------------------- graph builder
Heap == [nodes |-> nodes, counter |-> COUNTER]

\* get_id with a load in place of the fetch_add.
get_id_NoIncrement(counter) == [id |-> counter, counter |-> counter]

\* get_id: COUNTER.fetch_add(1) returns the old value.
get_id(counter) == [id |-> counter, counter |-> counter + 1]

\* Value_::new(data), wrapped by the caller into an Rc once v.op is set:
\* the new Value_ with the given operation, appended to the heap.
Value_new(h, data, op, a, b) ==
    LET g == get_id(h.counter)
    IN  [nodes |-> Append(h.nodes,
                     [data |-> data, id |-> g.id, op |-> op,
                      v1 |-> a, v2 |-> b, grad |-> 0]),
         counter |-> g.counter]

\* Value::new(data)
new(h, data) == Value_new(h, data, "None", 0, 0)

\* impl Add<&Value> for &Value
add(h, a, b) ==
    Value_new(h, FAdd(h.nodes[a].data, h.nodes[b].data), "Plus", a, b)

\* sub with the operands of the subtraction exchanged.
sub_Swapped(h, a, b) ==
    Value_new(h, FSub(h.nodes[b].data, h.nodes[a].data), "Sub", a, b)

\* impl Sub<&Value> for &Value
sub(h, a, b) ==
    Value_new(h, FSub(h.nodes[a].data, h.nodes[b].data), "Sub", a, b)

\* impl Mul<&Value> for &Value
mul(h, a, b) ==
    Value_new(h, FMul(h.nodes[a].data, h.nodes[b].data), "Mul", a, b)

\* Value::tanh
tanh(h, a) ==
    Value_new(h, TanhForward(h.nodes[a].data), "Tanh", a, 0)

\* The heap before anything is built: COUNTER starts at 1.
EmptyHeap == [nodes |-> <<>>, counter |-> 1]

\* The Value the last constructor call returned.
Last(h) == Len(h.nodes)

\* A constructor call of Spec: h is the heap it leaves and call names the
\* constructor and its arguments.  The record of the last calculate_grad
\* call is dropped, being about the operation before.
Construct(h, call) ==
    /\ pc = "idle"
    /\ Len(nodes) < MaxNodes
    /\ Abs(h.nodes[Last(h)].data) <= MaxAbs * Scale
    /\ nodes' = h.nodes
    /\ COUNTER' = h.counter
    /\ root' = 0
    /\ pre' = <<>>
    /\ loc' = call
    /\ UNCHANGED <<pc, rev_tp_order, pos, calls, net, tpc>>

NewLeaf(d) == Construct(new(Heap, d), <<"new", d>>)
OpAdd(a, b) == Construct(add(Heap, a, b), <<"add", a, b>>)
OpSub(a, b) == Construct(sub(Heap, a, b), <<"sub", a, b>>)
OpMul(a, b) == Construct(mul(Heap, a, b), <<"mul", a, b>>)
OpTanh(a) == Construct(tanh(Heap, a), <<"tanh", a>>)

\* ---------------------------------------------------- topological sorter
Reverse(s) == [k \in 1..Len(s) |-> s[Len(s) + 1 - k]]

\* The depth-first post-order of the operand tree below a node, every path
\* to a node listing it again (no visited set).
RECURSIVE TreePostOrder(_, _)
TreePostOrder(ns, v) ==
    IF ns[v].op \in BinaryOps
    THEN TreePostOrder(ns, ns[v].v1) \o TreePostOrder(ns, ns[v].v2) \o <<v>>
    ELSE IF ns[v].op = "Tanh"
    THEN Append(TreePostOrder(ns, ns[v].v1), v)
    ELSE <<v>>

\* topological_order without its visited set.
topological_order_NoVisited(ns, value) == TreePostOrder(ns, value)

RECURSIVE build_topo(_, _, _, _)
build_topo(ns, value, visited, order) ==
    IF ns[value].id \in visited
    THEN [visited |-> visited, order |-> order]
    ELSE LET vis == visited \cup {ns[value].id}
         IN  IF ns[value].op \in BinaryOps
             THEN LET r1 == build_topo(ns, ns[value].v1, vis, order)
                      r2 == build_topo(ns, ns[value].v2, r1.visited, r1.order)
                  IN  [visited |-> r2.visited, order |-> Append(r2.order, value)]
             ELSE IF ns[value].op = "Tanh"
             THEN LET r1 == build_topo(ns, ns[value].v1, vis, order)
                  IN  [visited |-> r1.visited, order |-> Append(r1.order, value)]
             ELSE [visited |-> vis, order |-> Append(order, value)]

topological_order(ns, value) == build_topo(ns, value, {}, <<>>).order

\* reverse_topological_order without order.reverse().
reverse_topological_order_NotReversed(ns, value) == topological_order(ns, value)

reverse_topological_order(ns, value) == Reverse(topological_order(ns, value))

\* --------------------------------------------------- gradient propagator
\* AddGrad with = in place of +=.
AddGrad_Assign(ns, x, g) == [ns EXCEPT ![x].grad = g]

\* *x.grad.borrow_mut() += g
AddGrad(ns, x, g) == [ns EXCEPT ![x].grad = FAdd(ns[x].grad, g)]

\* The seed with += in place of =.
Seed_Accumulate(ns, r) == [ns EXCEPT ![r].grad = FAdd(ns[r].grad, One)]

\* *root.0.grad.borrow_mut() = 1.0
Seed(ns, r) == [ns EXCEPT ![r].grad = One]

\* Backward with the Mul rule multiplying by the operand's own value.
Backward_MulOwn(ns, v) ==
    LET a == ns[v].v1
        b == ns[v].v2
    IN  CASE ns[v].op = "None" -> ns
          [] ns[v].op = "Plus" ->
                LET n1 == AddGrad(ns, a, ns[v].grad)
                IN  AddGrad(n1, b, n1[v].grad)
          [] ns[v].op = "Mul" ->
                LET n1 == AddGrad(ns, a, FMul(ns[v].grad, ns[a].data))
                IN  AddGrad(n1, b, FMul(n1[v].grad, n1[b].data))
          [] ns[v].op = "Tanh" ->
                LET d == ns[a].data
                    local_grad == FSub(One, FMul(TanhStd(d), TanhStd(d)))
                    grad == FMul(ns[v].grad, local_grad)
                IN  AddGrad(ns, a, grad)
          [] ns[v].op = "Sub" ->
                LET n1 == AddGrad(ns, a, ns[v].grad)
                IN  AddGrad(n1, b, FNeg(n1[v].grad))

\* Backward with the Plus rule writing its operands' grads with =.
Backward_PlusAssign(ns, v) ==
    LET a == ns[v].v1
        b == ns[v].v2
    IN  CASE ns[v].op = "None" -> ns
          [] ns[v].op = "Plus" ->
                LET n1 == [ns EXCEPT ![a].grad = ns[v].grad]
                IN  [n1 EXCEPT ![b].grad = n1[v].grad]
          [] ns[v].op = "Mul" ->
                LET n1 == AddGrad(ns, a, FMul(ns[v].grad, ns[b].data))
                IN  AddGrad(n1, b, FMul(n1[v].grad, n1[a].data))
          [] ns[v].op = "Tanh" ->
                LET d == ns[a].data
                    local_grad == FSub(One, FMul(TanhStd(d), TanhStd(d)))
                    grad == FMul(ns[v].grad, local_grad)
                IN  AddGrad(ns, a, grad)
          [] ns[v].op = "Sub" ->
                LET n1 == AddGrad(ns, a, ns[v].grad)
                IN  AddGrad(n1, b, FNeg(n1[v].grad))

\* One iteration of calculate_grad's loop: the match on v.op.
Backward(ns, v) ==
    LET a == ns[v].v1
        b == ns[v].v2
    IN  CASE ns[v].op = "None" -> ns
          [] ns[v].op = "Plus" ->
                LET n1 == AddGrad(ns, a, ns[v].grad)
                IN  AddGrad(n1, b, n1[v].grad)
          [] ns[v].op = "Mul" ->
                LET n1 == AddGrad(ns, a, FMul(ns[v].grad, ns[b].data))
                IN  AddGrad(n1, b, FMul(n1[v].grad, n1[a].data))
          [] ns[v].op = "Tanh" ->
                LET d == ns[a].data
                    local_grad == FSub(One, FMul(TanhStd(d), TanhStd(d)))
                    grad == FMul(ns[v].grad, local_grad)
                IN  AddGrad(ns, a, grad)
          [] ns[v].op = "Sub" ->
                LET n1 == AddGrad(ns, a, ns[v].grad)
                IN  AddGrad(n1, b, FNeg(n1[v].grad))

\* The loop `for v in &rev_tp_order` from position k on.
RECURSIVE GradLoop(_, _, _)
GradLoop(ns, order, k) ==
    IF k > Len(order) THEN ns
    ELSE GradLoop(Backward(ns, order[k]), order, k + 1)

\* calculate_grad(root) as one function of the heap's nodes.
calculate_grad(ns, r) ==
    GradLoop(Seed(ns, r), reverse_topological_order(Seed(ns, r), r), 1)

\* calculate_grad up to its loop: the seed and the sort.
GradBegin(r) ==
    /\ pc = "idle"
    /\ pre' = nodes
    /\ nodes' = Seed(nodes, r)
    /\ root' = r
    /\ rev_tp_order' = reverse_topological_order(Seed(nodes, r), r)
    /\ pos' = 1
    /\ pc' = "grad"
    /\ UNCHANGED COUNTER

\* One iteration of `for v in &rev_tp_order`; the call returns after the
\* last one, dropping rev_tp_order.
GradStep ==
    /\ pc = "grad"
    /\ nodes' = Backward(nodes, rev_tp_order[pos])
    /\ IF pos = Len(rev_tp_order)
       THEN pc' = "idle" /\ pos' = 0 /\ rev_tp_order' = <<>>
       ELSE pc' = "grad" /\ pos' = pos + 1 /\ UNCHANGED rev_tp_order
    /\ UNCHANGED <<COUNTER, root, pre>>

CalcGradBegin(r) ==
    /\ calls < MaxCalls
    /\ GradBegin(r)
    /\ calls' = calls + 1
    /\ UNCHANGED <<net, loc, tpc>>

CalcGradStep ==
    /\ GradStep
    /\ UNCHANGED <<calls, net, loc, tpc>>

\* No call of calculate_grad is in progress or on record.
NoCall ==
    /\ pc = "idle"
    /\ root = 0
    /\ rev_tp_order = <<>>
    /\ pos = 0
    /\ pre = <<>>
    /\ calls = 0

Init ==
    /\ COUNTER = 1
    /\ nodes = <<>>
    /\ NoCall
    /\ net = <<>>
    /\ loc = <<>>
    /\ tpc = "none"

Next ==
    \/ \E d \in LeafValues : NewLeaf(d)
    \/ \E a, b \in 1..Len(nodes) : OpAdd(a, b)
    \/ \E a, b \in 1..Len(nodes) : OpSub(a, b)
    \/ \E a, b \in 1..Len(nodes) : OpMul(a, b)
    \/ \E a \in 1..Len(nodes) : OpTanh(a)
    \/ \E r \in 1..Len(nodes) : CalcGradBegin(r)
    \/ CalcGradStep

Spec == Init /\ [][Next]_vars

\* Graph construction alone.
NextBuild ==
    \/ \E d \in LeafValues : NewLeaf(d)
    \/ \E a, b \in 1..Len(nodes) : OpAdd(a, b)
    \/ \E a, b \in 1..Len(nodes) : OpSub(a, b)
    \/ \E a, b \in 1..Len(nodes) : OpMul(a, b)
    \/ \E a \in 1..Len(nodes) : OpTanh(a)

SpecBuild == Init /\ [][NextBuild]_vars



\* ----------------------------------------------------- Neuron, Layer, MLP
\* What rng.gen_range(-1.0..=1.0) draws from: the ends of the range.
ParamValues == {FNeg(One), One}

Min(x, y) == IF x < y THEN x ELSE y

\* Neuron::new(nin) with the nin + 1 random numbers rnd: the weights are
\* built first, the bias last.
RECURSIVE NewValues(_, _, _)
NewValues(h, ds, k) ==
    IF k > Len(ds) THEN h ELSE NewValues(new(h, ds[k]), ds, k + 1)

Neuron_new(h, nin, rnd) ==
    [h |-> NewValues(h, rnd, 1),
     neuron |-> [weights |-> [k \in 1..nin |-> Len(h.nodes) + k],
                 bias |-> Len(h.nodes) + nin + 1]]

\* Neuron::get_parameters
Neuron_get_parameters(n) == Append(n.weights, n.bias)

\* `let v = e; F(v)`: e is evaluated once and F applied to its value.
Let(e, F(_)) == CHOOSE r \in {F(v) : v \in {e}} : TRUE

\* The loop `for (xi, wi) in zip(x, &self.weights)` from pair k on, s being
\* the running sum: zip stops with the shorter of the two.
RECURSIVE NeuronSum(_, _, _, _, _)
NeuronSum(h, n, x, s, k) ==
    IF k > Min(Len(x), Len(n.weights)) THEN [h |-> h, s |-> s]
    ELSE Let(mul(h, x[k], n.weights[k]), LAMBDA h1 :
         Let(add(h1, s, Last(h1)), LAMBDA h2 :
         NeuronSum(h2, n, x, Last(h2), k + 1)))

\* Neuron::apply from `let mut s = Value::new(0.0)` on.
NeuronBody(h, n, x) ==
    Let(new(h, 0), LAMBDA h0 :
    Let(NeuronSum(h0, n, x, Last(h0), 1), LAMBDA r :
    Let(add(r.h, r.s, n.bias), LAMBDA h1 :
    Let(tanh(h1, Last(h1)), LAMBDA h2 :
    [h |-> h2, out |-> Last(h2), panic |-> FALSE]))))

\* Neuron::apply without its assert_eq!.
Neuron_apply_NoAssert(h, n, x) == NeuronBody(h, n, x)

\* Neuron::apply: a failed assert_eq! panics before anything is built.
Neuron_apply(h, n, x) ==
    IF Len(x) # Len(n.weights)
    THEN [h |-> h, out |-> 0, panic |-> TRUE]
    ELSE NeuronBody(h, n, x)

\* Layer::new(nin, nout): neuron j draws rnd[(j-1)(nin+1)+1 .. j(nin+1)].
RECURSIVE LayerNeurons(_, _, _, _, _)
LayerNeurons(h, nin, nout, rnd, j) ==
    IF j > nout THEN [h |-> h, neurons |-> <<>>]
    ELSE LET r == Neuron_new(h, nin, SubSeq(rnd, (j - 1) * (nin + 1) + 1, j * (nin + 1)))
             rest == LayerNeurons(r.h, nin, nout, rnd, j + 1)
         IN  [h |-> rest.h, neurons |-> <<r.neuron>> \o rest.neurons]

Layer_new(h, nin, nout, rnd) == LayerNeurons(h, nin, nout, rnd, 1)

\* Layer::apply: every neuron on the same x, in order; a panic ends it.
RECURSIVE Layer_apply(_, _, _)
Layer_apply(h, neurons, x) ==
    IF neurons = <<>> THEN [h |-> h, out |-> <<>>, panic |-> FALSE]
    ELSE Let(Neuron_apply(h, neurons[1], x), LAMBDA r :
         IF r.panic THEN [h |-> r.h, out |-> <<>>, panic |-> TRUE]
         ELSE Let(Layer_apply(r.h, Tail(neurons), x), LAMBDA rest :
              [h |-> rest.h, out |-> <<r.out>> \o rest.out,
               panic |-> rest.panic]))

\* Layer::get_parameters
RECURSIVE Layer_get_parameters(_)
Layer_get_parameters(neurons) ==
    IF neurons = <<>> THEN <<>>
    ELSE Neuron_get_parameters(neurons[1]) \o Layer_get_parameters(Tail(neurons))

\* The number of random numbers MLP::new(sz[1], sz[2..]) draws.
RECURSIVE ParamCount(_)
ParamCount(sz) ==
    IF Len(sz) < 2 THEN 0 ELSE (sz[1] + 1) * sz[2] + ParamCount(Tail(sz))

\* MLP::new(nin, nouts) with sz = [nin] ++ nouts: layer i is
\* Layer::new(sz[i], sz[i + 1]).
RECURSIVE MLP_layers(_, _, _)
MLP_layers(h, sz, rnd) ==
    IF Len(sz) < 2 THEN [h |-> h, layers |-> <<>>]
    ELSE LET cnt == (sz[1] + 1) * sz[2]
             r == Layer_new(h, sz[1], sz[2], SubSeq(rnd, 1, cnt))
             rest == MLP_layers(r.h, Tail(sz), SubSeq(rnd, cnt + 1, Len(rnd)))
         IN  [h |-> rest.h, layers |-> <<r.neurons>> \o rest.layers]

MLP_new(h, nin, nouts, rnd) == MLP_layers(h, <<nin>> \o nouts, rnd)

\* MLP::apply: the layers in order, each on the outputs of the one before.
RECURSIVE MLP_apply(_, _, _)
MLP_apply(h, layers, x) ==
    IF layers = <<>> THEN [h |-> h, out |-> x, panic |-> FALSE]
    ELSE Let(Layer_apply(h, layers[1], x), LAMBDA r :
         IF r.panic THEN r ELSE MLP_apply(r.h, Tail(layers), r.out))

\* MLP::get_parameters
RECURSIVE MLP_get_parameters(_)
MLP_get_parameters(layers) ==
    IF layers = <<>> THEN <<>>
    ELSE Layer_get_parameters(layers[1]) \o MLP_get_parameters(Tail(layers))

\* ------------------------------------------------ SpecNeuron: one neuron
\* The values inputs are built from: the test mlp feeds 1.0 and -1.0.
InputValues == {One, FNeg(One)}

\* The state after Neuron::new(nin).
InitNeuron ==
    /\ NoCall
    /\ \E nin \in 0..MaxLen :
       \E rnd \in [1..(nin + 1) -> ParamValues] :
           LET r == Neuron_new(EmptyHeap, nin, rnd)
           IN  /\ nodes = r.h.nodes
               /\ COUNTER = r.h.counter
               /\ net = r.neuron
    /\ loc = [x |-> <<>>, out |-> 0]
    /\ tpc = "ready"

\* The Values that are no parameter of the neuron.
InputNodes == {v \in 1..Len(nodes) : v > net.bias}

\* Value::new(d) for an input.
NeuronNewInput(d) ==
    /\ tpc = "ready"
    /\ Cardinality(InputNodes) < MaxInputs
    /\ LET h == new(Heap, d)
       IN  nodes' = h.nodes /\ COUNTER' = h.counter
    /\ UNCHANGED <<pc, root, rev_tp_order, pos, pre, calls, net, loc, tpc>>

\* neuron.apply(&x): it returns a Value or panics, which ends the thread.
NeuronApply(x) ==
    /\ tpc = "ready"
    /\ \E r \in {Neuron_apply(Heap, net, x)} :
           /\ nodes' = r.h.nodes
           /\ COUNTER' = r.h.counter
           /\ loc' = [x |-> x, out |-> r.out]
           /\ tpc' = IF r.panic THEN "panicked" ELSE "returned"
    /\ UNCHANGED <<pc, root, rev_tp_order, pos, pre, calls, net>>

NextNeuron ==
    \/ \E d \in InputValues : NeuronNewInput(d)
    \/ /\ tpc = "ready"
       /\ \E n \in 0..MaxLen : \E x \in [1..n -> InputNodes] : NeuronApply(x)

SpecNeuron == InitNeuron /\ [][NextNeuron]_vars

\* ------------------------------------- SpecTrain: the loop of the test mlp
\* let lr = 0.01
lr == RoundDiv(Scale, 100)

\* loss.get_data() < 0.001
LossIsSmall(data) == 1000 * data < Scale

\* vec![Value::new(1.0), Value::new(-1.0)], for NIn inputs.
XsValues == [k \in 1..NIn |-> IF k % 2 = 1 THEN One ELSE FNeg(One)]

\* The state before the loop: nn = MLP::new(NIn, &[NHidden, 1]), then xs,
\* ys = Value::new(-1.0) and loss = Value::new(0.0).
InitTrain ==
    /\ NoCall
    /\ \E rnd \in [1..ParamCount(<<NIn, NHidden, 1>>) -> ParamValues] :
           LET m  == MLP_new(EmptyHeap, NIn, <<NHidden, 1>>, rnd)
               h1 == NewValues(m.h, XsValues, 1)
               h2 == new(h1, FNeg(One))
               h3 == new(h2, 0)
           IN  /\ nodes = h3.nodes
               /\ COUNTER = h3.counter
               /\ net = m.layers
               /\ loc = [xs |-> [k \in 1..NIn |-> Len(m.h.nodes) + k],
                         ys |-> Last(h2), loss |-> Last(h3), iter |-> 0]
    /\ tpc = "forward"

\* y = nn.apply(&xs); diff = y.first().unwrap() - &ys; loss = &diff * &diff
TrainForward ==
    /\ tpc = "forward"
    /\ \E r \in {MLP_apply(Heap, net, loc.xs)} :
       \E h1 \in {sub(r.h, r.out[1], loc.ys)} :
       \E h2 \in {mul(h1, Last(h1), Last(h1))} :
           /\ nodes' = h2.nodes
           /\ COUNTER' = h2.counter
           /\ loc' = [loc EXCEPT !.loss = Last(h2)]
    /\ tpc' = "grad"
    /\ UNCHANGED <<pc, root, rev_tp_order, pos, pre, calls, net>>

\* calculate_grad(&loss)
TrainGradBegin ==
    /\ tpc = "grad"
    /\ GradBegin(loc.loss)
    /\ tpc' = "gradloop"
    /\ UNCHANGED <<calls, net, loc>>

TrainGradStep ==
    /\ tpc = "gradloop"
    /\ GradStep
    /\ tpc' = IF pos = Len(rev_tp_order) THEN "check" ELSE "gradloop"
    /\ UNCHANGED <<calls, net, loc>>

\* if loss.get_data() < 0.001 { break; }
TrainBreak ==
    /\ tpc = "check"
    /\ LossIsSmall(nodes[loc.loss].data)
    /\ tpc' = "done"
    /\ UNCHANGED <<COUNTER, nodes, pc, root, rev_tp_order, pos, pre, calls, net, loc>>

\* *v.data.borrow_mut() -= lr * v.get_grad(), for every parameter
Update(ns, params) ==
    [n \in 1..Len(ns) |->
        IF n \in {params[k] : k \in 1..Len(params)}
        THEN [ns[n] EXCEPT !.data = FSub(ns[n].data, FMul(lr, ns[n].grad))]
        ELSE ns[n]]

\* The rest of an iteration: the update of the parameters; the loop ends
\* after MaxIter iterations.
TrainUpdate ==
    /\ tpc = "check"
    /\ ~LossIsSmall(nodes[loc.loss].data)
    /\ nodes' = Update(nodes, MLP_get_parameters(net))
    /\ loc' = [loc EXCEPT !.iter = loc.iter + 1]
    /\ tpc' = IF loc.iter + 1 < MaxIter THEN "forward" ELSE "done"
    /\ UNCHANGED <<COUNTER, pc, root, rev_tp_order, pos, pre, calls, net>>

NextTrain ==
    \/ TrainForward
    \/ TrainGradBegin
    \/ TrainGradStep
    \/ TrainBreak
    \/ TrainUpdate

SpecTrain == InitTrain /\ [][NextTrain]_vars

\* ------------------------------------------------------------ properties
\* The nodes reachable from r along operand edges, r included.
RECURSIVE Reach(_, _)
Reach(ns, r) ==
    {r} \cup UNION {Reach(ns, x) : x \in OperandSet(ns, r)}

Range(s) == {s[k] : k \in 1..Len(s)}

\* s without the later occurrences of its elements.
RECURSIVE FirstOccurrences(_)
FirstOccurrences(s) ==
    IF s = <<>> THEN <<>>
    ELSE LET front == FirstOccurrences(SubSeq(s, 1, Len(s) - 1))
         IN  IF s[Len(s)] \in Range(front) THEN front
             ELSE Append(front, s[Len(s)])

\* The consumers of x among the nodes of S.
ConsumersIn(ns, S, x) == {v \in S : x \in OperandSet(ns, v)}

\* A call of calculate_grad has returned and is on record in pre and root.
Returned == pc = "idle" /\ root # 0

\* C2: for every graph and every root, topological_order(root) holds every
\* node reachable from root exactly once and no other node, every operand of
\* a node of the sequence stands at a strictly earlier index, and the
\* sequence is the depth-first post-order that visits operand a before b.
C2_TopologicalOrder ==
    \A r \in 1..Len(nodes) :
        LET order == topological_order(nodes, r)
        IN  /\ Range(order) = Reach(nodes, r)
            /\ Len(order) = Cardinality(Reach(nodes, r))
            /\ \A k \in 1..Len(order) :
                   \A x \in OperandSet(nodes, order[k]) :
                       \E j \in 1..(k - 1) : order[j] = x
            /\ order = FirstOccurrences(TreePostOrder(nodes, r))

\* A graph in which a node is an operand of two consumers below one root.
C2_Witness ==
    \E r \in 1..Len(nodes) :
        \E x \in Reach(nodes, r) :
            /\ Cardinality(ConsumersIn(nodes, Reach(nodes, r), x)) >= 2
            /\ Len(topological_order(nodes, r)) >= 3

\* C7: ids are pairwise distinct and increase in construction order, every
\* operand of a node exists and has a strictly smaller id than the node, and
\* no node is its own ancestor.
C7_IdsAndAcyclicity ==
    /\ \A i, j \in 1..Len(nodes) : i < j => nodes[i].id < nodes[j].id
    /\ \A i \in 1..Len(nodes) : nodes[i].id < COUNTER
    /\ \A v \in 1..Len(nodes) :
           \A x \in OperandSet(nodes, v) :
               /\ x \in 1..Len(nodes)
               /\ nodes[x].id < nodes[v].id
               /\ v \notin Reach(nodes, x)

\* A graph of leaves and operator applications, MaxNodes nodes in all.
C7_Witness ==
    /\ Len(nodes) = MaxNodes
    /\ \E v \in 1..Len(nodes) : nodes[v].op = "None"
    /\ \E v \in 1..Len(nodes) :
           /\ nodes[v].op # "None"
           /\ \E x \in OperandSet(nodes, v) : nodes[x].op # "None"

\* C4: from its seed on, through every step of the propagation and after
\* its return, calculate_grad(root) leaves root.grad = 1.0, whatever
\* root.grad was before the call.
C4_GradientSeed ==
    root # 0 => nodes[root].grad = One

\* A call that returned on a root that is no leaf and whose grad an earlier
\* call had left at a value other than 0 and 1.
C4_Witness ==
    /\ Returned
    /\ nodes[root].op # "None"
    /\ pre[root].grad \notin {0, One}
    /\ nodes[root].grad = One


\* The derivative of a node with respect to its k-th operand (add, sub, mul).
LocalDerivative(ns, v, k) ==
    CASE ns[v].op = "Plus" -> One
      [] ns[v].op = "Sub" -> IF k = 1 THEN One ELSE FNeg(One)
      [] ns[v].op = "Mul" -> IF k = 1 THEN ns[ns[v].v2].data ELSE ns[ns[v].v1].data

\* The operand paths from v down to n: sequences of edges [v, k], the k-th
\* operand slot of v.  A node that is both operands of a consumer is reached
\* by two paths.
RECURSIVE Paths(_, _, _)
Paths(ns, v, n) ==
    IF v = n THEN {<<>>}
    ELSE UNION {{<<[v |-> v, k |-> k]>> \o p : p \in Paths(ns, Operands(ns, v)[k], n)} :
                k \in 1..Len(Operands(ns, v))}

RECURSIVE PathProduct(_, _)
PathProduct(ns, p) ==
    IF p = <<>> THEN One
    ELSE FMul(LocalDerivative(ns, p[1].v, p[1].k), PathProduct(ns, Tail(p)))

RECURSIVE SumOfPaths(_, _)
SumOfPaths(ns, P) ==
    IF P = {} THEN 0
    ELSE LET p == CHOOSE q \in P : TRUE
         IN  FAdd(PathProduct(ns, p), SumOfPaths(ns, P \ {p}))

\* d(root)/d(n): the sum over the operand paths of the products of the local
\* derivatives.
Derivative(ns, r, n) == SumOfPaths(ns, Paths(ns, r, n))

\* a = -2, b = 3, d = a * b, e = a + b, f = d * e: nodes 1 to 5.
EndToEnd ==
    LET h1 == new(EmptyHeap, -2 * Scale)
        h2 == new(h1, 3 * Scale)
        h3 == mul(h2, 1, 2)
        h4 == add(h3, 1, 2)
    IN  mul(h4, 3, 4).nodes

\* The grads calculate_grad(f) leaves on a, b, d, e, f.
EndToEndGrads ==
    LET g == calculate_grad(EndToEnd, 5)
    IN  [n \in 1..5 |-> g[n].grad]

\* C1: after calculate_grad(root) on a graph of leaves, add, sub and mul
\* whose grads were 0, the grad of every node reachable from root is the
\* derivative of root with respect to it, the sum over the operand paths of
\* the products of the local derivatives; and the graph a = -2, b = 3,
\* d = a * b, e = a + b, f = d * e gets grads -3, -8, 1, -6 on a, b, d, e.
C1_GradIsDerivative ==
    /\ (/\ Returned
        /\ \A n \in Reach(pre, root) : pre[n].grad = 0 /\ pre[n].op # "Tanh")
       => \A n \in Reach(pre, root) : nodes[n].grad = Derivative(pre, root, n)
    /\ EndToEndGrads = <<-3 * Scale, -8 * Scale, 1 * Scale, -6 * Scale, 1 * Scale>>
    /\ EndToEndGrads = [n \in 1..5 |-> Derivative(EndToEnd, 5, n)]

\* A returned call on a zero-grad graph of add, sub and mul in which a node
\* is an operand of two consumers, one of them a Mul that has it as both
\* operands, and got a grad other than 0.
C1_Witness ==
    /\ Returned
    /\ \A n \in Reach(pre, root) : pre[n].grad = 0 /\ pre[n].op # "Tanh"
    /\ \E x \in Reach(pre, root) :
           /\ Cardinality(ConsumersIn(pre, Reach(pre, root), x)) >= 2
           /\ \E v \in Reach(pre, root) :
                  pre[v].op = "Mul" /\ pre[v].v1 = x /\ pre[v].v2 = x
           /\ nodes[x].grad # 0
           /\ Cardinality(Paths(pre, root, x)) >= 3

\* What the rule of consumer v adds to the grad of its k-th operand, from
\* v's grad in ns.
Contribution(ns, v, k) ==
    CASE ns[v].op = "Plus" -> ns[v].grad
      [] ns[v].op = "Sub" -> IF k = 1 THEN ns[v].grad ELSE FNeg(ns[v].grad)
      [] ns[v].op = "Mul" ->
            FMul(ns[v].grad,
                 IF k = 1 THEN ns[ns[v].v2].data ELSE ns[ns[v].v1].data)
      [] ns[v].op = "Tanh" ->
            FMul(ns[v].grad,
                 FSub(One, FMul(TanhGrid(ns[ns[v].v1].data),
                                TanhGrid(ns[ns[v].v1].data))))

\* The operand edges into x from the consumers in S.
EdgesInto(ns, S, x) ==
    {e \in S \X {1, 2} : /\ e[2] <= Len(Operands(ns, e[1]))
                         /\ Operands(ns, e[1])[e[2]] = x}

RECURSIVE SumOfContributions(_, _)
SumOfContributions(ns, E) ==
    IF E = {} THEN 0
    ELSE LET e == CHOOSE d \in E : TRUE
         IN  FAdd(Contribution(ns, e[1], e[2]), SumOfContributions(ns, E \ {e}))

ZeroGrads(ns) == [n \in 1..Len(ns) |-> [ns[n] EXCEPT !.grad = 0]]

\* C8: calculate_grad never resets a non-root grad: after the call every
\* reachable non-root node has the grad it had before the call plus the sum,
\* over the operand edges into it from reachable consumers, of the
\* consumer's final grad times the local derivative of the edge.
C8_Accumulates ==
    Returned =>
        \A x \in Reach(pre, root) \ {root} :
            nodes[x].grad =
                FAdd(pre[x].grad,
                     SumOfContributions(nodes, EdgesInto(nodes, Reach(pre, root), x)))

\* A second call on a root whose first call's grads were still in place: a
\* node below the root ends with twice the grad a pass from zero gives it.
C8_Witness ==
    /\ Returned
    /\ calls = 2
    /\ pre[root].grad = One
    /\ \E x \in Reach(pre, root) \ {root} :
           LET fresh == calculate_grad(ZeroGrads(pre), root)[x].grad
           IN  /\ fresh # 0
               /\ pre[x].grad = fresh
               /\ nodes[x].grad = 2 * fresh

\* The orders of the nodes of S in which every node comes after all of its
\* consumers in S.
RECURSIVE ConsumerFirstOrders(_, _)
ConsumerFirstOrders(ns, S) ==
    IF S = {} THEN {<<>>}
    ELSE UNION {{<<x>> \o o : o \in ConsumerFirstOrders(ns, S \ {x})} :
                x \in {y \in S : ConsumersIn(ns, S, y) = {}}}

C10_ConsumersFirst ==
    pc = "grad" =>
        /\ rev_tp_order = Reverse(topological_order(nodes, root))
        /\ rev_tp_order[1] = root
        /\ Range(rev_tp_order) = Reach(nodes, root)
        /\ Len(rev_tp_order) = Cardinality(Reach(nodes, root))
        /\ \A k \in 1..Len(rev_tp_order) :
               \A v \in ConsumersIn(nodes, Reach(nodes, root), rev_tp_order[k]) :
                   \E j \in 1..(k - 1) : rev_tp_order[j] = v
        /\ \A j \in pos..Len(rev_tp_order) :
               \A k \in 1..(pos - 1) :
                   rev_tp_order[k] \notin OperandSet(nodes, rev_tp_order[j])

\* The loop is about to process a node with two consumers, both processed.
C10_Witness ==
    /\ pc = "grad"
    /\ pos > 2
    /\ Cardinality(ConsumersIn(nodes, Reach(nodes, root), rev_tp_order[pos])) >= 2
    /\ nodes[rev_tp_order[pos]].op # "None"
    /\ nodes[rev_tp_order[pos]].grad # 0


\* A step that applies add, sub, mul or tanh.
OperatorStep == loc' # loc /\ loc'[1] \in {"add", "sub", "mul", "tanh"}

C5_LengthMismatchPanics ==
    [][(tpc = "ready" /\ tpc' # "ready" /\ Len(loc'.x) # Len(net.weights)) =>
        /\ tpc' = "panicked"
        /\ loc'.out = 0
        /\ nodes' = nodes
        /\ COUNTER' = COUNTER
      ]_vars

\* A neuron with more weights than the non-empty slice it was applied to,
\* as Neuron::new(3) applied to two inputs.
C5_Witness ==
    /\ tpc = "panicked"
    /\ Len(net.weights) = 3
    /\ Len(loc.x) = 2


\* C3: in the training loop the grad of every node reachable from the loss
\* is 0 when a gradient pass starts, so that the grad each update uses on a
\* parameter is what a pass from zero grads over that iteration's loss
\* leaves on it.
C3_GradsZeroAtPassStart ==
    /\ tpc = "grad" =>
           \A n \in Reach(nodes, loc.loss) : nodes[n].grad = 0
    /\ tpc = "check" =>
           \A k \in 1..Len(MLP_get_parameters(net)) :
               LET p == MLP_get_parameters(net)[k]
               IN  nodes[p].grad = calculate_grad(ZeroGrads(pre), loc.loss)[p].grad

====
